---- MODULE Spec2Model ----
(***************************************************************************)
(* Model of the two cleaning pipelines of the repository and of the merges *)
(* of its analysis scripts:                                                *)
(*   Cleaning.py                      main() and the stages it composes     *)
(*   Basic_Analysis/CleaningDeep.py   minimal_clean_with_dates()            *)
(*   Deeper_Analysis/Analysis1.py     the left joins building df_merged     *)
(*                                    (specification MergeSpec)             *)
(*                                                                         *)
(* A table is a pandas DataFrame: an ordered list of column names, a dtype *)
(* per column and an ordered list of rows, each carrying its index label.  *)
(* A cell is missing (NaN/NaT), a number, a string or a parsed date.       *)
(* Numbers are exact rationals n/d over finite values, strings and column  *)
(* names are sequences of characters, dates are written YYYY-MM.           *)
(*                                                                         *)
(* main() runs the same chain on each of its four tables; the model runs   *)
(* the chain on one table, whose kind (leases, occupancy, price_avail,     *)
(* unemployment) selects the grouping keys.  pc is the position in the     *)
(* chain, groups logs the calls of dynamic_clean_group made by             *)
(* groupby(...).apply: the group given, the branch taken, the result.      *)
(* pandas behaviour is that of the releases the scripts run on (1.x/2.x):  *)
(* the group passed to apply holds the key columns, rows with a missing    *)
(* key are left out, groups come in key order, fillna(inplace=True) on a   *)
(* column of the group writes through.                                     *)
(* files is the set of the four cleaned CSVs of main() that exist on disk, *)
(* out the content main() or minimal_clean_with_dates() wrote for the      *)
(* table.                                                                  *)
(***************************************************************************)
EXTENDS Integers, Sequences, FiniteSets, TLC

VARIABLES prog, kind, pc, raw, tbl, keys, groups, out, files

vars == <<prog, kind, pc, raw, tbl, keys, groups, out, files>>

(* ------------------------------ bounds --------------------------------- *)
MaxRows == 4
MaxRowsWide == 3
MaxRowsPair == 2

(* --------------------------- rationals --------------------------------- *)
Abs(x) == IF x < 0 THEN -x ELSE x

RECURSIVE GCD(_, _)
GCD(a, b) == IF b = 0 THEN a ELSE GCD(b, a % b)

R(n, d) ==
    LET g == GCD(Abs(n), Abs(d))
        s == IF d < 0 THEN -1 ELSE 1
    IN  [n |-> (s * n) \div g, d |-> (s * d) \div g]

RLe(a, b) == a.n * b.d <= b.n * a.d
RLt(a, b) == a.n * b.d < b.n * a.d
RAdd(a, b) == R(a.n * b.d + b.n * a.d, a.d * b.d)
RSub(a, b) == R(a.n * b.d - b.n * a.d, a.d * b.d)
RMul(a, b) == R(a.n * b.n, a.d * b.d)
RDiv(a, b) == R(a.n * b.d, a.d * b.n)
RMax(a, b) == IF RLt(a, b) THEN b ELSE a
RMin(a, b) == IF RLt(b, a) THEN b ELSE a

(* ------------------------------ cells ---------------------------------- *)
NaN == [k |-> "nan", n |-> 0, d |-> 1, s |-> <<>>]
Num(x) == [k |-> "num", n |-> x, d |-> 1, s |-> <<>>]
RNum(q) == [k |-> "num", n |-> q.n, d |-> q.d, s |-> <<>>]
Str(s) == [k |-> "str", n |-> 0, d |-> 1, s |-> s]
Dt(y, m) == [k |-> "dt", n |-> y, d |-> m, s |-> <<>>]
IsNull(c) == c.k = "nan"
Val(c) == [n |-> c.n, d |-> c.d]

(* ---------------------------- characters ------------------------------- *)
Ascii == <<" ", "-", ".", "0", "1", "2", "3", "4", "5", "6", "7", "8", "9",
           "A", "B", "D", "Q", "S", "_",
           "a", "b", "c", "d", "e", "f", "g", "h", "i", "j", "k", "l", "m",
           "n", "o", "p", "q", "r", "s", "t", "u", "v", "w", "x", "y", "z">>
CharCode(ch) == CHOOSE i \in 1..Len(Ascii) : Ascii[i] = ch
Digits == <<"0", "1", "2", "3", "4", "5", "6", "7", "8", "9">>
IsDigit(ch) == \E i \in 1..10 : Digits[i] = ch
DigitVal(ch) == (CHOOSE i \in 1..10 : Digits[i] = ch) - 1
LowerCh(ch) ==
    CASE ch = "A" -> "a" [] ch = "B" -> "b" [] ch = "D" -> "d"
      [] ch = "Q" -> "q" [] ch = "S" -> "s" [] OTHER -> ch
IsSpace(ch) == ch = " "
IsWord(ch) == ch \notin {" ", "-", "."}

Lower(s) == [i \in 1..Len(s) |-> LowerCh(s[i])]
Contains(sub, s) ==
    \E i \in 1..(Len(s) - Len(sub) + 1) : SubSeq(s, i, i + Len(sub) - 1) = sub

RECURSIVE Strip(_)
Strip(s) ==
    IF s = <<>> THEN s
    ELSE IF IsSpace(s[1]) THEN Strip(Tail(s))
    ELSE IF IsSpace(s[Len(s)]) THEN Strip(SubSeq(s, 1, Len(s) - 1))
    ELSE s
RemovePunct(s) == SelectSeq(s, LAMBDA ch : IsWord(ch) \/ IsSpace(ch))

RECURSIVE StrLess(_, _)
StrLess(a, b) ==
    IF b = <<>> THEN FALSE
    ELSE IF a = <<>> THEN TRUE
    ELSE IF a[1] = b[1] THEN StrLess(Tail(a), Tail(b))
    ELSE CharCode(a[1]) < CharCode(b[1])

RECURSIVE DigitsOf(_)
DigitsOf(x) ==
    IF x < 10 THEN <<Digits[x + 1]>>
    ELSE DigitsOf(x \div 10) \o <<Digits[(x % 10) + 1]>>

RECURSIVE NumOf(_)
NumOf(s) == IF s = <<>> THEN 0 ELSE 10 * NumOf(SubSeq(s, 1, Len(s) - 1)) + DigitVal(s[Len(s)])

(* column names *)
cYear == <<"y", "e", "a", "r">>
cQuarter == <<"q", "u", "a", "r", "t", "e", "r">>
cMonth == <<"m", "o", "n", "t", "h">>
cYearQuarter == <<"y", "e", "a", "r", "_", "q", "u", "a", "r", "t", "e", "r">>
cState == <<"s", "t", "a", "t", "e">>
cCity == <<"c", "i", "t", "y">>
cMarket == <<"m", "a", "r", "k", "e", "t">>
cRegion == <<"r", "e", "g", "i", "o", "n">>
cBuildingClass == <<"b", "u", "i", "l", "d", "i", "n", "g", "_", "c", "l", "a", "s", "s",
                    "i", "f", "i", "c", "a", "t", "i", "o", "n">>
cRent == <<"r", "e", "n", "t">>
cSqft == <<"s", "q", "f", "t">>
cSource == <<"s", "o", "u", "r", "c", "e">>
cNote == <<"n", "o", "t", "e">>
cRate == <<"r", "a", "t", "e">>
cDate == <<"D", "a", "t", "e">>
cSigned == <<"m", "o", "n", "t", "h", "s", "i", "g", "n", "e", "d">>

(* --------------------------- table helpers ----------------------------- *)
Range(s) == {s[i] : i \in 1..Len(s)}
ColSet(t) == Range(t.cols)
IsNumericDtype(dt) == dt \in {"int64", "float64"}
NumericCols(t) == SelectSeq(t.cols, LAMBDA c : IsNumericDtype(t.dtype[c]))
Column(t, c) == [i \in 1..Len(t.rows) |-> t.rows[i].c[c]]
NonNull(cells) == SelectSeq(cells, LAMBDA x : ~IsNull(x))
Vals(cells) == [i \in 1..Len(cells) |-> Val(cells[i])]

CellLess(a, b) ==
    IF a.k = "str" /\ b.k = "str" THEN StrLess(a.s, b.s)
    ELSE IF a.k = "num" /\ b.k = "num" THEN RLt(Val(a), Val(b))
    ELSE FALSE

(* ---------------------------- statistics ------------------------------- *)
(* Series.median(): NaN is skipped by the callers; qs is a sequence of rationals *)
Median(qs) ==
    LET srt == SortSeq(qs, RLt)
        n == Len(qs)
    IN  IF n % 2 = 1 THEN srt[(n + 1) \div 2]
        ELSE RDiv(RAdd(srt[n \div 2], srt[n \div 2 + 1]), R(2, 1))

(* Series.quantile(k/4), linear interpolation between order statistics *)
Quantile(qs, k) ==
    LET srt == SortSeq(qs, RLt)
        n == Len(qs)
        lo == ((n - 1) * k) \div 4
        fr == ((n - 1) * k) % 4
    IN  IF fr = 0 THEN srt[lo + 1]
        ELSE RAdd(srt[lo + 1], RMul(R(fr, 4), RSub(srt[lo + 2], srt[lo + 1])))

(* Series.mode()[0]: the most frequent non-null value, the smallest on ties *)
Count(cells, x) == Cardinality({i \in 1..Len(cells) : cells[i] = x})
Mode(cells) ==
    LET best == {x \in Range(cells) : \A y \in Range(cells) : Count(cells, y) <= Count(cells, x)}
    IN  CHOOSE x \in best : \A y \in best : ~CellLess(y, x)

(* ------------------------------ loading -------------------------------- *)
(* dtype read_csv infers for a column *)
InferDtype(cells) ==
    IF \E i \in 1..Len(cells) : cells[i].k = "str" THEN "object"
    ELSE IF \E i \in 1..Len(cells) : cells[i].k = "nan" THEN "float64"
    ELSE "int64"

ReadCsv(cols, cellrows) ==
    [cols |-> cols,
     dtype |-> [c \in Range(cols) |-> InferDtype([i \in 1..Len(cellrows) |-> cellrows[i][c]])],
     rows |-> [i \in 1..Len(cellrows) |-> [idx |-> i - 1, c |-> cellrows[i]]]]

(* variant: only a row equal to the row right before it counts as a duplicate *)
KeepFirstAdjacent(rows, i) == i = 1 \/ rows[i - 1].c # rows[i].c

KeepFirst(rows, i) == \A j \in 1..(i - 1) : rows[j].c # rows[i].c

RECURSIVE FilterIdx(_, _, _)
FilterIdx(rows, keep, i) ==
    IF i > Len(rows) THEN <<>>
    ELSE (IF keep[i] THEN <<rows[i]>> ELSE <<>>) \o FilterIdx(rows, keep, i + 1)

DropDuplicates(t) ==
    [t EXCEPT !.rows = FilterIdx(t.rows, [i \in 1..Len(t.rows) |-> KeepFirst(t.rows, i)], 1)]

(* astype(str) *)
ToStr(cell, dt) ==
    IF cell.k = "nan" THEN <<"n", "a", "n">>
    ELSE IF cell.k = "str" THEN cell.s
    ELSE IF dt = "float64" THEN DigitsOf(cell.n) \o <<".", "0">>
    ELSE DigitsOf(cell.n)

create_year_quarter(t) ==
    IF {cYear, cQuarter} \subseteq ColSet(t)
    THEN LET yq(r) == Str(ToStr(r.c[cYear], t.dtype[cYear]) \o <<"Q">>
                          \o ToStr(r.c[cQuarter], t.dtype[cQuarter]))
             newcols == IF cYearQuarter \in ColSet(t) THEN t.cols ELSE Append(t.cols, cYearQuarter)
         IN  [cols |-> newcols,
              dtype |-> [c \in Range(newcols) |-> IF c = cYearQuarter THEN "object" ELSE t.dtype[c]],
              rows |-> [i \in 1..Len(t.rows) |->
                          [idx |-> t.rows[i].idx,
                           c |-> [c \in Range(newcols) |->
                                    IF c = cYearQuarter THEN yq(t.rows[i]) ELSE t.rows[i].c[c]]]]]
    ELSE t

Possible == <<cState, cCity, cMarket, cRegion, cBuildingClass, cYearQuarter>>
Defaults == <<cMarket, cYearQuarter>>

(* variant: no fallback, the candidates found are returned even when none is found *)
get_group_keys_found(t, defaults) == SelectSeq(Possible, LAMBDA k : k \in ColSet(t))

get_group_keys(t, defaults) ==
    LET ks == SelectSeq(Possible, LAMBDA k : k \in ColSet(t))
    IN  IF ks # <<>> THEN ks ELSE defaults

UnempKeys(t) == IF {cState, cYear} \subseteq ColSet(t) THEN <<cState, cYear>> ELSE <<cYear>>

BuildKeys(t, kd) == IF kd = "unemployment" THEN UnempKeys(t) ELSE get_group_keys(t, Defaults)

(* --------------------------- dynamic_clean_group ----------------------- *)
RowCompleteness(g, i) ==
    R(Cardinality({c \in ColSet(g) : ~IsNull(g.rows[i].c[c])}), Len(g.cols))
ColMissingness(g, c) ==
    R(Cardinality({i \in 1..Len(g.rows) : IsNull(g.rows[i].c[c])}), Len(g.rows))

GroupYear(g) == IF cYear \in ColSet(g) THEN g.rows[1].c[cYear] ELSE NaN

IsFixedYear(g) == GroupYear(g) = Num(2018)

(* variant: the 0.1 margin added to the median row completeness *)
RowThreshAbove(g) ==
    IF IsFixedYear(g) THEN R(4, 10)
    ELSE RMax(R(2, 10),
              RAdd(Median([i \in 1..Len(g.rows) |-> RowCompleteness(g, i)]), R(1, 10)))

RowThresh(g) ==
    IF IsFixedYear(g) THEN R(4, 10)
    ELSE RMax(R(2, 10),
              RSub(Median([i \in 1..Len(g.rows) |-> RowCompleteness(g, i)]), R(1, 10)))

(* variant: the 0.1 margin left out of the column threshold *)
ColThreshNoMargin(g) ==
    IF IsFixedYear(g) THEN R(6, 10)
    ELSE RMin(R(9, 10), Median([j \in 1..Len(g.cols) |-> ColMissingness(g, g.cols[j])]))

ColThresh(g) ==
    IF IsFixedYear(g) THEN R(6, 10)
    ELSE RMin(R(9, 10),
              RAdd(Median([j \in 1..Len(g.cols) |-> ColMissingness(g, g.cols[j])]), R(1, 10)))

RowKept(g, i, row_thresh) == RLe(row_thresh, RowCompleteness(g, i))

(* variant: the column's missingness taken over the rows left by the row filter *)
ColDroppedAfterRows(g, c, col_thresh) ==
    LET left == {i \in 1..Len(g.rows) : RowKept(g, i, RowThresh(g))}
    IN  left # {} /\ RLe(col_thresh, R(Cardinality({i \in left : IsNull(g.rows[i].c[c])}),
                                        Cardinality(left)))

ColDropped(g, c, col_thresh) == RLe(col_thresh, ColMissingness(g, c))

(* the value fillna() puts in the missing cells of column c; NaN: nothing is filled *)
FillValue(dt, cells) ==
    LET nn == NonNull(cells)
    IN  IF IsNumericDtype(dt)
        THEN (IF nn = <<>> THEN NaN ELSE RNum(Median(Vals(nn))))
        ELSE (IF nn = <<>> THEN Str(<<>>) ELSE Mode(nn))

dynamic_clean_group(g) ==
    LET row_thresh == RowThresh(g)
        col_thresh == ColThresh(g)
        kept == FilterIdx(g.rows, [i \in 1..Len(g.rows) |-> RowKept(g, i, row_thresh)], 1)
        cols == SelectSeq(g.cols, LAMBDA c : ~ColDropped(g, c, col_thresh))
        fill == [c \in Range(cols) |->
                    FillValue(g.dtype[c], [i \in 1..Len(kept) |-> kept[i].c[c]])]
    IN  [cols |-> cols,
         dtype |-> [c \in Range(cols) |-> g.dtype[c]],
         rows |-> [i \in 1..Len(kept) |->
                     [idx |-> kept[i].idx,
                      c |-> [c \in Range(cols) |->
                               IF IsNull(kept[i].c[c]) THEN fill[c] ELSE kept[i].c[c]]]]]

(* ------------------------ groupby(keys).apply -------------------------- *)
HasKey(r, ks) == \A j \in 1..Len(ks) : ~IsNull(r.c[ks[j]])
KeyOf(r, ks) == [j \in 1..Len(ks) |-> r.c[ks[j]]]

RECURSIVE KeyLess(_, _)
KeyLess(a, b) ==
    IF a = <<>> THEN FALSE
    ELSE IF a[1] = b[1] THEN KeyLess(Tail(a), Tail(b))
    ELSE CellLess(a[1], b[1])

RECURSIVE SortKeys(_)
SortKeys(S) ==
    IF S = {} THEN <<>>
    ELSE LET mn == CHOOSE x \in S : \A y \in S \ {x} : KeyLess(x, y)
         IN  <<mn>> \o SortKeys(S \ {mn})

(* groupby: rows with a missing key are left out (dropna), groups come in key order *)
GroupKeys(t, ks) == SortKeys({KeyOf(t.rows[i], ks) : i \in {j \in 1..Len(t.rows) : HasKey(t.rows[j], ks)}})

GroupOf(t, ks, key) ==
    [cols |-> t.cols, dtype |-> t.dtype,
     rows |-> SelectSeq(t.rows, LAMBDA r : HasKey(r, ks) /\ KeyOf(r, ks) = key)]

ApplyLog(t, ks) ==
    LET gk == GroupKeys(t, ks)
    IN  [i \in 1..Len(gk) |->
           LET g == GroupOf(t, ks, gk[i])
           IN  [key |-> gk[i], g |-> g,
                branch |-> IF IsFixedYear(g) THEN "fixed" ELSE "dynamic",
                res |-> dynamic_clean_group(g)]]

RECURSIVE UnionCols(_, _)
UnionCols(log, acc) ==
    IF log = <<>> THEN acc
    ELSE UnionCols(Tail(log), acc \o SelectSeq(Head(log).res.cols, LAMBDA c : c \notin Range(acc)))

RECURSIVE ConcatRows(_, _)
ConcatRows(log, cols) ==
    IF log = <<>> THEN <<>>
    ELSE LET res == Head(log).res
         IN  [i \in 1..Len(res.rows) |->
                [c \in Range(cols) |-> IF c \in ColSet(res) THEN res.rows[i].c[c] ELSE NaN]]
             \o ConcatRows(Tail(log), cols)

ConcatDtype(log, c) ==
    LET has == {i \in 1..Len(log) : c \in ColSet(log[i].res)}
    IN  IF \E i \in has : log[i].res.dtype[c] = "object" THEN "object"
        ELSE IF has # 1..Len(log) \/ \E i \in has : log[i].res.dtype[c] = "float64" THEN "float64"
        ELSE "int64"

(* pd.concat of the groups' results followed by reset_index(drop=True) *)
Concat(log, t) ==
    IF log = <<>>
    THEN [cols |-> t.cols, dtype |-> [c \in ColSet(t) |-> "object"], rows |-> <<>>]
    ELSE LET cols == UnionCols(log, <<>>)
             cr == ConcatRows(log, cols)
         IN  [cols |-> cols,
              dtype |-> [c \in Range(cols) |-> ConcatDtype(log, c)],
              rows |-> [i \in 1..Len(cr) |-> [idx |-> i - 1, c |-> cr[i]]]]

(* ---------------------------- column typing ---------------------------- *)
sDate == <<"d", "a", "t", "e">>
sSigned == <<"s", "i", "g", "n", "e", "d">>

(* pd.to_datetime(errors='coerce') on strings written YYYY-MM *)
ParseDate(s) ==
    IF /\ Len(s) = 7
       /\ s[5] = "-"
       /\ \A i \in {1, 2, 3, 4, 6, 7} : IsDigit(s[i])
       /\ NumOf(SubSeq(s, 6, 7)) \in 1..12
    THEN Dt(NumOf(SubSeq(s, 1, 4)), NumOf(SubSeq(s, 6, 7)))
    ELSE NaN

ToDatetime(cell) ==
    CASE cell.k = "str" -> ParseDate(cell.s)
      [] cell.k = "num" -> Dt(1970, 1)
      [] OTHER -> cell

TextStd(cell) ==
    IF cell.k = "str" THEN Str(RemovePunct(Lower(Strip(cell.s)))) ELSE cell

(* the table with column c replaced by newcol[c] and its dtype by dt[c] *)
MapCols(t, newcol, dt) ==
    [cols |-> t.cols,
     dtype |-> dt,
     rows |-> [i \in 1..Len(t.rows) |->
                 [idx |-> t.rows[i].idx, c |-> [c \in ColSet(t) |-> newcol[c][i]]]]]

IsDateNameClean(c) == Contains(sDate, Lower(c))

standardize_dtypes(t) ==
    LET f(c, cell) == IF IsDateNameClean(c) THEN ToDatetime(cell)
                      ELSE IF t.dtype[c] = "object" THEN TextStd(cell)
                      ELSE cell
        dt(c) == IF IsDateNameClean(c) THEN "datetime64" ELSE t.dtype[c]
    IN  MapCols(t, [c \in ColSet(t) |-> [i \in 1..Len(t.rows) |-> f(c, t.rows[i].c[c])]],
                [c \in ColSet(t) |-> dt(c)])

(* ---------------------------- remove_outliers -------------------------- *)
(* variant: 3*iqr fences *)
OutlierBoundsWide(cells) ==
    LET nn == Vals(NonNull(cells))
    IN  IF nn = <<>> THEN [ok |-> FALSE, lo |-> R(0, 1), hi |-> R(0, 1)]
        ELSE LET q1 == Quantile(nn, 1)
                 q3 == Quantile(nn, 3)
                 iqr == RSub(q3, q1)
             IN  [ok |-> TRUE, lo |-> RSub(q1, RMul(R(3, 1), iqr)), hi |-> RAdd(q3, RMul(R(3, 1), iqr))]

(* q1 - 1.5*iqr and q3 + 1.5*iqr of the non-missing cells; all missing: NaN bounds *)
OutlierBounds(cells) ==
    LET nn == Vals(NonNull(cells))
    IN  IF nn = <<>> THEN [ok |-> FALSE, lo |-> R(0, 1), hi |-> R(0, 1)]
        ELSE LET q1 == Quantile(nn, 1)
                 q3 == Quantile(nn, 3)
                 iqr == RSub(q3, q1)
             IN  [ok |-> TRUE,
                  lo |-> RSub(q1, RMul(R(3, 2), iqr)),
                  hi |-> RAdd(q3, RMul(R(3, 2), iqr))]

(* variant: bound test written so that a missing value passes *)
InBoundsNaNPass(cell, b) ==
    IsNull(cell) \/ (b.ok /\ RLe(b.lo, Val(cell)) /\ RLe(Val(cell), b.hi))

(* a comparison with NaN is False *)
InBounds(cell, b) ==
    /\ b.ok
    /\ ~IsNull(cell)
    /\ RLe(b.lo, Val(cell))
    /\ RLe(Val(cell), b.hi)

FilterColumn(rows, c) ==
    LET b == OutlierBounds([i \in 1..Len(rows) |-> rows[i].c[c]])
    IN  SelectSeq(rows, LAMBDA r : InBounds(r.c[c], b))

(* variant: every column's quartiles taken from the rows given, not from the rows left *)
FilterColumnsJoint(rows, cols) ==
    SelectSeq(rows, LAMBDA r :
        \A c \in Range(cols) : InBounds(r.c[c], OutlierBounds([i \in 1..Len(rows) |-> rows[i].c[c]])))

RECURSIVE FilterColumns(_, _)
FilterColumns(rows, cols) ==
    IF cols = <<>> THEN rows
    ELSE FilterColumns(FilterColumn(rows, Head(cols)), Tail(cols))

remove_outliers(t) == [t EXCEPT !.rows = FilterColumns(t.rows, NumericCols(t))]

(* ------------------------------ normalize ------------------------------ *)
RMinOf(qs) == CHOOSE x \in Range(qs) : \A y \in Range(qs) : RLe(x, y)
RMaxOf(qs) == CHOOSE x \in Range(qs) : \A y \in Range(qs) : RLe(y, x)

(* variant: division by the maximum, the minimum not subtracted *)
ScaleByMax(cell, mi, mx) ==
    IF IsNull(cell) THEN NaN ELSE RNum(RDiv(Val(cell), mx))

Scale(cell, mi, mx) ==
    IF IsNull(cell) THEN NaN ELSE RNum(RDiv(RSub(Val(cell), mi), RSub(mx, mi)))

normalize(t) ==
    LET nn == [c \in ColSet(t) |-> Vals(NonNull(Column(t, c)))]
        mi == [c \in ColSet(t) |-> IF nn[c] = <<>> THEN R(0, 1) ELSE RMinOf(nn[c])]
        mx == [c \in ColSet(t) |-> IF nn[c] = <<>> THEN R(0, 1) ELSE RMaxOf(nn[c])]
        f(c, cell) ==
            IF ~IsNumericDtype(t.dtype[c]) THEN cell
            ELSE IF nn[c] = <<>> THEN NaN
            ELSE IF mi[c] # mx[c] THEN Scale(cell, mi[c], mx[c])
            ELSE Num(0)
        dt(c) == IF IsNumericDtype(t.dtype[c]) THEN "float64" ELSE t.dtype[c]
    IN  MapCols(t, [c \in ColSet(t) |-> [i \in 1..Len(t.rows) |-> f(c, t.rows[i].c[c])]],
                [c \in ColSet(t) |-> dt(c)])

(* ----------------------- CleaningDeep.py stages ------------------------ *)
IsDateNameDeep(c) == \E k \in {sDate, sSigned} : Contains(k, Lower(c))

parse_date_columns(t) ==
    LET f(c, cell) == IF IsDateNameDeep(c) THEN ToDatetime(cell) ELSE cell
        dt(c) == IF IsDateNameDeep(c) THEN "datetime64" ELSE t.dtype[c]
    IN  MapCols(t, [c \in ColSet(t) |-> [i \in 1..Len(t.rows) |-> f(c, t.rows[i].c[c])]],
                [c \in ColSet(t) |-> dt(c)])

TimeCols == {cYear, cQuarter, cMonth}
DatetimeCols(t) == SelectSeq(t.cols, LAMBDA c : t.dtype[c] = "datetime64")

(* variant: the last date column holding a valid date is taken *)
FirstDateLast(r, dtcols) ==
    LET ok == {j \in 1..Len(dtcols) : ~IsNull(r.c[dtcols[j]])}
    IN  IF ok = {} THEN NaN ELSE r.c[dtcols[CHOOSE j \in ok : \A k \in ok : k <= j]]

RECURSIVE FirstDate(_, _)
FirstDate(r, dtcols) ==
    IF dtcols = <<>> THEN NaN
    ELSE IF ~IsNull(r.c[Head(dtcols)]) THEN r.c[Head(dtcols)]
    ELSE FirstDate(r, Tail(dtcols))

FromDate(c, dv) ==
    IF c = cYear THEN Num(dv.n)
    ELSE IF c = cMonth THEN Num(dv.d)
    ELSE Num(((dv.d - 1) \div 3) + 1)

(* a value int() and pd.to_numeric read as a whole number *)
IsIntLike(cell) ==
    \/ cell.k = "num"
    \/ cell.k = "str" /\ cell.s # <<>> /\ \A i \in 1..Len(cell.s) : IsDigit(cell.s[i])
AsInt(cell) == IF cell.k = "str" THEN Num(NumOf(cell.s)) ELSE Num(cell.n \div cell.d)

(* fillna(0) then astype(int, errors='ignore'): a column with a value that *)
(* is not a number is left as it is after the fill (conv is FALSE)         *)
ZeroInt(cell, dt) ==
    IF IsNull(cell) THEN Num(0)
    ELSE IF IsNumericDtype(dt) THEN Num(cell.n \div cell.d)
    ELSE cell

fill_year_qtr_month_from_date(t) ==
    LET dtc == DatetimeCols(t)
        has(r, c) == c \in ColSet(t) /\ ~IsNull(r.c[c])
        all3(r) == has(r, cYear) /\ has(r, cQuarter) /\ has(r, cMonth)
        f(r, c) ==
            LET dv == FirstDate(r, dtc)
                v == IF c \in TimeCols /\ ~all3(r) /\ ~IsNull(dv) /\ IsNull(r.c[c])
                     THEN FromDate(c, dv) ELSE r.c[c]
            IN  IF c \in TimeCols THEN ZeroInt(v, t.dtype[c]) ELSE v
        conv == [c \in ColSet(t) |->
                    c \in TimeCols /\ \A i \in 1..Len(t.rows) : IsIntLike(f(t.rows[i], c))]
    IN  IF dtc = <<>> THEN t
        ELSE [cols |-> t.cols,
              dtype |-> [c \in ColSet(t) |-> IF conv[c] THEN "int64" ELSE t.dtype[c]],
              rows |-> [i \in 1..Len(t.rows) |->
                          [idx |-> t.rows[i].idx,
                           c |-> [c \in ColSet(t) |->
                                    IF conv[c] THEN AsInt(f(t.rows[i], c)) ELSE f(t.rows[i], c)]]]]

IsProtected(c) == Lower(c) \in TimeCols

FillNumeric(t) ==
    LET nn(c) == NonNull(Column(t, c))
        f(c, cell) ==
            IF IsNumericDtype(t.dtype[c]) /\ ~IsProtected(c) /\ IsNull(cell) /\ nn(c) # <<>>
            THEN RNum(Median(Vals(nn(c)))) ELSE cell
        dt(c) == t.dtype[c]
    IN  MapCols(t, [c \in ColSet(t) |-> [i \in 1..Len(t.rows) |-> f(c, t.rows[i].c[c])]],
                [c \in ColSet(t) |-> dt(c)])

sMissing == <<"m", "i", "s", "s", "i", "n", "g">>

FillObject(t) ==
    LET f(c, cell) == IF t.dtype[c] = "object" /\ IsNull(cell) THEN Str(sMissing) ELSE cell
        dt(c) == t.dtype[c]
    IN  MapCols(t, [c \in ColSet(t) |-> [i \in 1..Len(t.rows) |-> f(c, t.rows[i].c[c])]],
                [c \in ColSet(t) |-> dt(c)])

(* variant: to_numeric called with errors='coerce' *)
ToNumericCoerce(cells, dt) ==
    [cells |-> [i \in 1..Len(cells) |->
                  IF IsNull(cells[i]) THEN NaN
                  ELSE IF cells[i].k = "num" THEN cells[i]
                  ELSE IF IsIntLike(cells[i]) THEN AsInt(cells[i]) ELSE NaN],
     dtype |-> "float64"]

(* pd.to_numeric(errors='ignore', downcast='integer') of a column: when a  *)
(* value cannot be read as a number the column is returned as it was       *)
ToNumericIgnore(cells, dt) ==
    IF IsNumericDtype(dt)
    THEN [cells |-> cells,
          dtype |-> IF \A i \in 1..Len(cells) : ~IsNull(cells[i]) /\ cells[i].d = 1
                    THEN "int64" ELSE dt]
    ELSE IF dt = "object" /\ \A i \in 1..Len(cells) : IsIntLike(cells[i])
    THEN [cells |-> [i \in 1..Len(cells) |-> AsInt(cells[i])], dtype |-> "int64"]
    ELSE [cells |-> cells, dtype |-> dt]

Downcast(t) ==
    LET conv == [c \in ColSet(t) |->
                    IF c \in TimeCols THEN ToNumericIgnore(Column(t, c), t.dtype[c])
                    ELSE [cells |-> Column(t, c), dtype |-> t.dtype[c]]]
    IN  MapCols(t, [c \in ColSet(t) |-> conv[c].cells], [c \in ColSet(t) |-> conv[c].dtype])

(* ------------------------------ inputs --------------------------------- *)
sA == <<"a">>
sB == <<"b">>
sAd == <<"A", "-">>
sX == <<"x">>
sD1 == <<"2", "0", "1", "9", "-", "0", "4">>
sD2 == <<"2", "0", "2", "0", "-", "1", "1">>

Schemas ==
    { [prog |-> "Cleaning", kind |-> "leases", cols |-> <<cMarket, cRent, cSqft>>, maxn |-> MaxRows,
       dom |-> (cMarket :> {Str(sA), Str(sB)}) @@ (cRent :> {Num(0), Num(1)})
               @@ (cSqft :> {Num(0), Num(1)})],
      [prog |-> "Cleaning", kind |-> "occupancy", cols |-> <<cMarket, cRent, cNote>>, maxn |-> MaxRowsWide,
       dom |-> (cMarket :> {Str(sA), Str(sB)}) @@ (cRent :> {NaN, Num(1)})
               @@ (cNote :> {NaN, Str(sX)})],
      [prog |-> "Cleaning", kind |-> "price_avail", cols |-> <<cMarket, cYear, cRent>>, maxn |-> MaxRowsWide,
       dom |-> (cMarket :> {Str(sA)}) @@ (cYear :> {Num(2018), Num(2019)})
               @@ (cRent :> {NaN, Num(1)})],
      [prog |-> "Cleaning", kind |-> "leases", cols |-> <<cMarket, cYear, cQuarter, cRent>>, maxn |-> MaxRowsWide,
       dom |-> (cMarket :> {Str(sA)}) @@ (cYear :> {NaN, Num(2018), Num(2019), Num(2020)})
               @@ (cQuarter :> {Num(1)}) @@ (cRent :> {Num(0), Num(1)})],
      [prog |-> "Cleaning", kind |-> "unemployment", cols |-> <<cState, cYear, cRate>>, maxn |-> MaxRowsWide,
       dom |-> (cState :> {Str(sA)}) @@ (cYear :> {NaN, Num(2018), Num(2019)})
               @@ (cRate :> {NaN, Num(1)})],
      [prog |-> "Cleaning", kind |-> "leases", cols |-> <<cRent>>, maxn |-> MaxRowsWide,
       dom |-> (cRent :> {Num(0), Num(1)})],
      [prog |-> "Cleaning", kind |-> "unemployment", cols |-> <<cRate>>, maxn |-> MaxRowsWide,
       dom |-> (cRate :> {Num(0), Num(1)})],
      [prog |-> "Cleaning", kind |-> "leases", cols |-> <<cMarket, cDate, cSigned>>, maxn |-> MaxRowsWide,
       dom |-> (cMarket :> {Str(sA), Str(sAd)}) @@ (cDate :> {Str(sD1), Str(sX)})
               @@ (cSigned :> {NaN, Num(5)})],
      [prog |-> "Deep", kind |-> "leases", cols |-> <<cYear, cQuarter, cDate>>, maxn |-> MaxRowsWide,
       dom |-> (cYear :> {NaN, Num(2018)}) @@ (cQuarter :> {NaN, Num(1)})
               @@ (cDate :> {Str(sD1), Str(sX)})],
      [prog |-> "Deep", kind |-> "leases", cols |-> <<cMonth, cDate, cSigned>>, maxn |-> MaxRowsWide,
       dom |-> (cMonth :> {NaN, Num(5)}) @@ (cDate :> {Str(sD1), Str(sX)})
               @@ (cSigned :> {NaN, Str(sD2)})],
      [prog |-> "Deep", kind |-> "unemployment", cols |-> <<cYear, cRate, cNote>>, maxn |-> MaxRowsWide,
       dom |-> (cYear :> {NaN, Num(2018)}) @@ (cRate :> {NaN, Num(1)})
               @@ (cNote :> {NaN, Str(sX)})],
      [prog |-> "Cleaning", kind |-> "occupancy", cols |-> <<cMarket, cRent, cNote, cSource>>,
       maxn |-> MaxRowsPair,
       dom |-> (cMarket :> {NaN, Str(sA)}) @@ (cRent :> {NaN, Num(1)})
               @@ (cNote :> {NaN, Str(sX)}) @@ (cSource :> {NaN, Str(sX)})],
      [prog |-> "Deep", kind |-> "price_avail", cols |-> <<cYear, cDate>>, maxn |-> MaxRowsWide,
       dom |-> (cYear :> {NaN, Str(sX)}) @@ (cDate :> {Str(sD1), Str(sX)})],
      [prog |-> "Cleaning", kind |-> "occupancy",
       cols |-> <<cMarket, cRent, cNote, cSource, cSqft, cRate>>, maxn |-> MaxRowsPair,
       dom |-> (cMarket :> {Str(sA)}) @@ (cRent :> {NaN, Num(1)}) @@ (cNote :> {NaN, Str(sX)})
               @@ (cSource :> {NaN}) @@ (cSqft :> {NaN}) @@ (cRate :> {NaN})],
      [prog |-> "Cleaning", kind |-> "leases", cols |-> <<cMarket, cDate, cNote>>, maxn |-> MaxRowsWide,
       dom |-> (cMarket :> {Str(sA), Str(sB)}) @@ (cDate :> {NaN, Num(5)})
               @@ (cNote :> {Str(sX)})] }

RowDom(sc) ==
    {f \in [Range(sc.cols) -> UNION {sc.dom[c] : c \in Range(sc.cols)}] :
        \A c \in Range(sc.cols) : f[c] \in sc.dom[c]}

NoTable == [cols |-> <<>>, dtype |-> <<>>, rows |-> <<>>]

(* the four files main() tests and writes, named by their table *)
OutFiles == {"leases", "occupancy", "price_avail", "unemployment"}

(* variant: the guard written with any() *)
AnyExist(fs) == \E fn \in OutFiles : fn \in fs

(* all(os.path.exists(fn) for fn in [...]) *)
AllExist(fs) == \A fn \in OutFiles : fn \in fs

(* the files found on disk at the start: none or all four, and every subset *)
(* of them with the price table                                             *)
FileChoices(sc) ==
    IF sc.prog # "Cleaning" THEN {{}}
    ELSE IF sc.kind = "price_avail" THEN SUBSET OutFiles
    ELSE {{}, OutFiles}

Init ==
    \E sc \in Schemas :
      \E n \in 1..sc.maxn :
        \E cellrows \in [1..n -> RowDom(sc)] :
          /\ prog = sc.prog
          /\ kind = sc.kind
          /\ raw = [cols |-> sc.cols, cellrows |-> cellrows]
          /\ pc = "start"
          /\ tbl = NoTable
          /\ keys = <<>>
          /\ groups = <<>>
          /\ out = <<>>
          /\ files \in FileChoices(sc)

(* ------------------------- Cleaning.py main() -------------------------- *)
SkipExisting ==
    /\ prog = "Cleaning" /\ pc = "start"
    /\ AllExist(files)
    /\ pc' = "skipped"
    /\ UNCHANGED <<prog, kind, raw, tbl, keys, groups, out, files>>

LoadDedup ==
    /\ prog = "Cleaning" /\ pc = "start"
    /\ ~AllExist(files)
    /\ tbl' = DropDuplicates(ReadCsv(raw.cols, raw.cellrows))
    /\ pc' = "loaded"
    /\ UNCHANGED <<prog, kind, raw, keys, groups, out, files>>

CreateYearQuarter ==
    /\ prog = "Cleaning" /\ pc = "loaded"
    /\ tbl' = IF kind \in {"leases", "occupancy", "price_avail"} THEN create_year_quarter(tbl) ELSE tbl
    /\ pc' = "yq"
    /\ UNCHANGED <<prog, kind, raw, keys, groups, out, files>>

BuildGroupKeys ==
    /\ prog = "Cleaning" /\ pc = "yq"
    /\ keys' = BuildKeys(tbl, kind)
    /\ pc' = "keys"
    /\ UNCHANGED <<prog, kind, raw, tbl, groups, out, files>>

GroupClean ==
    /\ prog = "Cleaning" /\ pc = "keys"
    /\ Range(keys) \subseteq ColSet(tbl)
    /\ LET log == ApplyLog(tbl, keys)
       IN  groups' = log /\ tbl' = Concat(log, tbl)
    /\ pc' = "cleaned"
    /\ UNCHANGED <<prog, kind, raw, keys, out, files>>

GroupKeyError ==
    /\ prog = "Cleaning" /\ pc = "keys"
    /\ ~(Range(keys) \subseteq ColSet(tbl))
    /\ pc' = "error"
    /\ UNCHANGED <<prog, kind, raw, tbl, keys, groups, out, files>>

(* variant: column typing applied to the table before its groups are cleaned *)
StandardizeBeforeGroups ==
    /\ prog = "Cleaning" /\ pc = "keys"
    /\ tbl' = standardize_dtypes(tbl)
    /\ pc' = "typed"
    /\ UNCHANGED <<prog, kind, raw, keys, groups, out, files>>

Standardize ==
    /\ prog = "Cleaning" /\ pc = "cleaned"
    /\ tbl' = standardize_dtypes(tbl)
    /\ pc' = "typed"
    /\ UNCHANGED <<prog, kind, raw, keys, groups, out, files>>

RemoveOutliers ==
    /\ prog = "Cleaning" /\ pc = "typed"
    /\ tbl' = remove_outliers(tbl)
    /\ pc' = "filtered"
    /\ UNCHANGED <<prog, kind, raw, keys, groups, out, files>>

Normalize ==
    /\ prog = "Cleaning" /\ pc = "filtered"
    /\ tbl' = normalize(tbl)
    /\ pc' = "normalized"
    /\ UNCHANGED <<prog, kind, raw, keys, groups, out, files>>

Save ==
    /\ prog = "Cleaning" /\ pc = "normalized"
    /\ out' = <<tbl>>
    /\ files' = OutFiles
    /\ pc' = "done"
    /\ UNCHANGED <<prog, kind, raw, tbl, keys, groups>>

(* the script is run again: a new process, the files on disk stay *)
RunAgain ==
    /\ prog = "Cleaning" /\ pc \in {"done", "skipped", "error"}
    /\ pc' = "start"
    /\ tbl' = NoTable
    /\ keys' = <<>>
    /\ groups' = <<>>
    /\ UNCHANGED <<prog, kind, raw, out, files>>

(* --------------- CleaningDeep.py minimal_clean_with_dates() ------------ *)
DeepLoadDedup ==
    /\ prog = "Deep" /\ pc = "start"
    /\ tbl' = DropDuplicates(ReadCsv(raw.cols, raw.cellrows))
    /\ pc' = "loaded"
    /\ UNCHANGED <<prog, kind, raw, keys, groups, out, files>>

DeepParseDates ==
    /\ prog = "Deep" /\ pc = "loaded"
    /\ tbl' = parse_date_columns(tbl)
    /\ pc' = "parsed"
    /\ UNCHANGED <<prog, kind, raw, keys, groups, out, files>>

DeepFillTime ==
    /\ prog = "Deep" /\ pc = "parsed"
    /\ tbl' = fill_year_qtr_month_from_date(tbl)
    /\ pc' = "timefilled"
    /\ UNCHANGED <<prog, kind, raw, keys, groups, out, files>>

DeepFillNumeric ==
    /\ prog = "Deep" /\ pc = "timefilled"
    /\ tbl' = FillNumeric(tbl)
    /\ pc' = "numfilled"
    /\ UNCHANGED <<prog, kind, raw, keys, groups, out, files>>

DeepFillObject ==
    /\ prog = "Deep" /\ pc = "numfilled"
    /\ tbl' = FillObject(tbl)
    /\ pc' = "objfilled"
    /\ UNCHANGED <<prog, kind, raw, keys, groups, out, files>>

DeepDowncast ==
    /\ prog = "Deep" /\ pc = "objfilled"
    /\ tbl' = Downcast(tbl)
    /\ pc' = "downcast"
    /\ UNCHANGED <<prog, kind, raw, keys, groups, out, files>>

DeepSave ==
    /\ prog = "Deep" /\ pc = "downcast"
    /\ out' = <<tbl>>
    /\ pc' = "done"
    /\ UNCHANGED <<prog, kind, raw, tbl, keys, groups, files>>

Next ==
    \/ SkipExisting \/ LoadDedup \/ CreateYearQuarter \/ BuildGroupKeys \/ GroupClean \/ GroupKeyError
    \/ Standardize \/ RemoveOutliers \/ Normalize \/ Save \/ RunAgain
    \/ DeepLoadDedup \/ DeepParseDates \/ DeepFillTime \/ DeepFillNumeric
    \/ DeepFillObject \/ DeepDowncast \/ DeepSave

Spec == Init /\ [][Next]_vars

(* ------------- Deeper_Analysis/Analysis1.py, Analysis3.py -------------- *)
(* The merged table of the analysis scripts.  raw holds the four tables    *)
(* read from the minimal-clean CSVs, tbl is df_merged, pc the merge done   *)
(* last.  A table here is a list of column names and a list of rows.       *)
cOccupancy == <<"o", "c", "c", "u", "p", "a", "n", "c", "y", "_", "p", "r", "o", "p", "o", "r", "t", "i", "o", "n">>
cOverallRent == <<"o", "v", "e", "r", "a", "l", "l", "_", "r", "e", "n", "t">>
cUnempRate == <<"u", "n", "e", "m", "p", "l", "o", "y", "m", "e", "n", "t", "_", "r", "a", "t", "e">>

cols_occ == <<cMarket, cYear, cQuarter, cOccupancy>>
cols_price == <<cMarket, cYear, cQuarter, cOverallRent>>
cols_unemp == <<cState, cYear, cUnempRate>>

(* df[cols] *)
SelectCols(t, cols) ==
    [cols |-> cols,
     rows |-> [i \in 1..Len(t.rows) |-> [c \in Range(cols) |-> t.rows[i][c]]]]

OnKey(r, on) == [j \in 1..Len(on) |-> r[on[j]]]

(* the rows a left row gives: one per right row with the same key, in the  *)
(* right table's order, or one with the right columns missing              *)
JoinRow(l, right, on, cols) ==
    LET hit == SelectSeq(right.rows, LAMBDA r : OnKey(r, on) = OnKey(l, on))
        both(r) == [c \in Range(cols) |-> IF c \in DOMAIN l THEN l[c] ELSE r[c]]
        alone == [c \in Range(cols) |-> IF c \in DOMAIN l THEN l[c] ELSE NaN]
    IN  IF hit = <<>> THEN <<alone>> ELSE [i \in 1..Len(hit) |-> both(hit[i])]

RECURSIVE JoinRows(_, _, _, _)
JoinRows(lrows, right, on, cols) ==
    IF lrows = <<>> THEN <<>>
    ELSE JoinRow(Head(lrows), right, on, cols) \o JoinRows(Tail(lrows), right, on, cols)

(* variant: how="inner", a left row without a match is left out *)
InnerMerge(left, right, on) ==
    LET cols == left.cols \o SelectSeq(right.cols, LAMBDA c : c \notin Range(on))
        hit(l) == SelectSeq(right.rows, LAMBDA r : OnKey(r, on) = OnKey(l, on))
    IN  [cols |-> cols,
         rows |-> JoinRows(SelectSeq(left.rows, LAMBDA l : hit(l) # <<>>), right, on, cols)]

(* pd.merge(left, right, on=on, how="left") *)
LeftMerge(left, right, on) ==
    LET cols == left.cols \o SelectSeq(right.cols, LAMBDA c : c \notin Range(on))
    IN  [cols |-> cols, rows |-> JoinRows(left.rows, right, on, cols)]

(* the four tables read: rows drawn from small sets of values *)
LeaseRows ==
    {(cMarket :> m) @@ (cState :> Str(sA)) @@ (cYear :> y) @@ (cQuarter :> Num(1)) :
        m \in {Str(sA), Str(sB)}, y \in {Num(2018), Num(2019)}}
OccupancyRows ==
    {(cMarket :> Str(sA)) @@ (cYear :> Num(2018)) @@ (cQuarter :> Num(1)) @@ (cOccupancy :> v) @@ (cNote :> Str(sX)) :
        v \in {Num(0), Num(1)}}
PriceRows ==
    {(cMarket :> Str(sA)) @@ (cYear :> Num(2018)) @@ (cQuarter :> Num(1)) @@ (cOverallRent :> v) :
        v \in {Num(0), Num(1)}}
UnempRows ==
    {(cState :> Str(sA)) @@ (cYear :> Num(2018)) @@ (cUnempRate :> Num(0))}

MergeInit ==
    \E nl, no, np, nu \in 1..MaxRowsPair :
      \E l \in [1..nl -> LeaseRows], o \in [1..no -> OccupancyRows],
         q \in [1..np -> PriceRows], u \in [1..nu -> UnempRows] :
        /\ prog = "Analysis"
        /\ kind = "merged"
        /\ raw = [leases |-> [cols |-> <<cMarket, cState, cYear, cQuarter>>, rows |-> l],
                  occupancy |-> [cols |-> <<cMarket, cYear, cQuarter, cOccupancy, cNote>>, rows |-> o],
                  price_avail |-> [cols |-> cols_price, rows |-> q],
                  unemp |-> [cols |-> cols_unemp, rows |-> u]]
        /\ pc = "start"
        /\ tbl = NoTable
        /\ keys = <<>>
        /\ groups = <<>>
        /\ out = <<>>
        /\ files = {}

MergeOccupancy ==
    /\ prog = "Analysis" /\ pc = "start"
    /\ tbl' = LeftMerge(raw.leases, SelectCols(raw.occupancy, cols_occ), <<cMarket, cYear, cQuarter>>)
    /\ pc' = "occupancy"
    /\ UNCHANGED <<prog, kind, raw, keys, groups, out, files>>

MergePrice ==
    /\ prog = "Analysis" /\ pc = "occupancy"
    /\ tbl' = LeftMerge(tbl, SelectCols(raw.price_avail, cols_price), <<cMarket, cYear, cQuarter>>)
    /\ pc' = "price"
    /\ UNCHANGED <<prog, kind, raw, keys, groups, out, files>>

MergeUnemployment ==
    /\ prog = "Analysis" /\ pc = "price"
    /\ tbl' = LeftMerge(tbl, SelectCols(raw.unemp, cols_unemp), <<cState, cYear>>)
    /\ pc' = "unemployment"
    /\ UNCHANGED <<prog, kind, raw, keys, groups, out, files>>

MergeNext == MergeOccupancy \/ MergePrice \/ MergeUnemployment

MergeSpec == MergeInit /\ [][MergeNext]_vars

(* ============================== claims ================================= *)
IdxSet(rows) == {rows[i].idx : i \in 1..Len(rows)}
Has2018(g) == cYear \in ColSet(g) /\ \E i \in 1..Len(g.rows) : g.rows[i].c[cYear] = Num(2018)
All2018(g) == cYear \in ColSet(g) /\ \A i \in 1..Len(g.rows) : g.rows[i].c[cYear] = Num(2018)

C2_OverrideIffYear2018 ==
    \A x \in 1..Len(groups) :
      /\ All2018(groups[x].g) => groups[x].branch = "fixed"
      /\ groups[x].branch = "fixed" => All2018(groups[x].g)

(* C3: the table written by the Cleaning.py pipeline has no missing value   *)
(* in any numeric column.                                                   *)
C3_NoMissingNumeric ==
    (prog = "Cleaning" /\ pc = "done") =>
      \A c \in ColSet(out[1]) :
        IsNumericDtype(out[1].dtype[c]) =>
          \A i \in 1..Len(out[1].rows) : out[1].rows[i].c[c].k # "nan"

C3_Witness ==
    /\ prog = "Cleaning" /\ pc = "done"
    /\ Len(out[1].rows) > 0
    /\ \E x, y \in 1..Len(groups) :
         \E c \in ColSet(groups[x].res) :
           /\ IsNumericDtype(groups[x].res.dtype[c])
           /\ c \notin ColSet(groups[y].res)
           /\ Len(groups[y].res.rows) > 0

(* C4 (as stated): the cleaned output table contains no two identical rows. *)
C4_NoDuplicateOutput ==
    pc = "done" =>
      \A i, j \in 1..Len(out[1].rows) : i # j => out[1].rows[i].c # out[1].rows[j].c

(* C4 (amended): right after loading, when drop_duplicates has run, the     *)
(* table contains no two identical rows.                                    *)
C4_NoDuplicateAfterLoad ==
    pc = "loaded" =>
      \A i, j \in 1..Len(tbl.rows) : i # j => tbl.rows[i].c # tbl.rows[j].c

C4_Witness ==
    /\ pc = "loaded"
    /\ Len(tbl.rows) < Len(raw.cellrows)
    /\ Len(tbl.rows) > 1

IsIntegerCell(cell) == cell.k = "num" /\ cell.d = 1
NameHas(sub, c) == \E i \in 1..Len(c) : \E j \in i..Len(c) :
                      [x \in 1..(j - i + 1) |-> LowerCh(c[i + x - 1])] = sub

(* C5: every year, quarter and month value of a cleaned output table is an  *)
(* integer, in the output of minimal_clean_with_dates and in the output of  *)
(* the Cleaning.py pipeline.                                                *)
C5_TimeFieldsInteger ==
    pc = "done" =>
      \A c \in TimeCols \cap ColSet(out[1]) :
        \A i \in 1..Len(out[1].rows) : IsIntegerCell(out[1].rows[i].c[c])

(* C6: after minimal_clean_with_dates no year, quarter or month cell is     *)
(* missing: a cell missing in the input holds the value taken from the      *)
(* row's first valid date when there is one, and 0 otherwise.               *)
C6_TimeCellsFilled ==
    (prog = "Deep" /\ pc = "done") =>
      \A c \in TimeCols \cap ColSet(out[1]) :
        \A i \in 1..Len(out[1].rows) :
          LET r == out[1].rows[i]
              src == raw.cellrows[r.idx + 1]
              dates == SelectSeq(raw.cols, LAMBDA d : NameHas(sDate, d) \/ NameHas(sSigned, d))
              valid == SelectSeq(dates, LAMBDA d : src[d].k = "str" /\ ParseDate(src[d].s).k = "dt")
          IN  /\ r.c[c].k # "nan"
              /\ src[c].k = "nan" =>
                   IF valid = <<>> THEN r.c[c] = Num(0)
                   ELSE LET dv == ParseDate(src[valid[1]].s)
                        IN  r.c[c] = IF c = cYear THEN Num(dv.n)
                                     ELSE IF c = cMonth THEN Num(dv.d)
                                     ELSE Num(((dv.d + 2) \div 3))

(* C7: normalize maps every value x of a numeric column to                  *)
(* (x - min)/(max - min) of the column, which lies in [0,1]; every value of *)
(* a constant column maps to 0.                                             *)
C7_MinMaxScaling ==
    [][Normalize =>
         \A c \in Range(NumericCols(tbl)) :
           LET col == {Val(tbl.rows[j].c[c]) : j \in 1..Len(tbl.rows)}
           IN  \A mn, mx \in col :
                 (\A v \in col : RLe(mn, v) /\ RLe(v, mx)) =>
                   \A i \in 1..Len(tbl.rows) :
                     LET x == tbl.rows[i].c[c]
                         y == tbl'.rows[i].c[c]
                     IN  /\ x.k = "num" /\ y.k = "num"
                         /\ 0 <= y.n /\ y.n <= y.d
                         /\ IF mn = mx THEN y.n = 0
                            ELSE RMul(Val(y), RSub(mx, mn)) = RSub(Val(x), mn)]_vars

C7_Witness ==
    /\ prog = "Cleaning" /\ pc = "normalized"
    /\ \E c \in ColSet(tbl) :
         /\ IsNumericDtype(tbl.dtype[c])
         /\ \E i \in 1..Len(tbl.rows) : 0 < tbl.rows[i].c[c].n /\ tbl.rows[i].c[c].n < tbl.rows[i].c[c].d
         /\ \E i \in 1..Len(tbl.rows) : tbl.rows[i].c[c] = Num(0)
         /\ \E i \in 1..Len(tbl.rows) : tbl.rows[i].c[c] = Num(1)

(* the fences 2*(q1 - 1.5*iqr) = 5*q1 - 3*q3 and 2*(q3 + 1.5*iqr) = 5*q3 - 3*q1 of the cells *)
Fences(cells) ==
    LET nn == Vals(NonNull(cells))
    IN  IF nn = <<>> THEN [some |-> FALSE, lo2 |-> R(0, 1), hi2 |-> R(0, 1)]
        ELSE LET q1 == Quantile(nn, 1)
                 q3 == Quantile(nn, 3)
             IN  [some |-> TRUE,
                  lo2 |-> RSub(RMul(R(5, 1), q1), RMul(R(3, 1), q3)),
                  hi2 |-> RSub(RMul(R(5, 1), q3), RMul(R(3, 1), q1))]

Inside(cell, fn) ==
    /\ cell.k = "num"
    /\ fn.some
    /\ RLe(fn.lo2, RMul(R(2, 1), Val(cell)))
    /\ RLe(RMul(R(2, 1), Val(cell)), fn.hi2)

(* for k = 0..n: the rows (by index label) left after the first k numeric columns were *)
(* filtered in turn, and for k >= 1 the fences used for the k-th numeric column        *)
Stages(t) ==
    LET nc == NumericCols(t)
        S[j \in 0..Len(nc)] ==
            IF j = 0 THEN [left |-> IdxSet(t.rows), fn |-> Fences(<<>>)]
            ELSE LET prev == S[j - 1].left
                     rows == SelectSeq(t.rows, LAMBDA r : r.idx \in prev)
                     fn == Fences([i \in 1..Len(rows) |-> rows[i].c[nc[j]]])
                 IN  [left |-> {rows[i].idx : i \in {x \in 1..Len(rows) : Inside(rows[x].c[nc[j]], fn)}},
                      fn |-> fn]
    IN  S

(* C8 (as stated): the quartiles used for a column are those of that        *)
(* column in the table given to remove_outliers, whatever rows another      *)
(* column removed.                                                          *)
C8_IndependentQuartiles ==
    [][RemoveOutliers =>
         LET fn == [c \in Range(NumericCols(tbl)) |-> Fences(Column(tbl, c))]
         IN  tbl'.rows = SelectSeq(tbl.rows, LAMBDA r :
                            \A c \in Range(NumericCols(tbl)) : Inside(r.c[c], fn[c]))]_vars

(* C8 (amended): the numeric columns are filtered one after the other in    *)
(* column order; the quartiles used for a column are those of its values    *)
(* in the rows left by the columns before it.                               *)
C8_SequentialQuartiles ==
    [][RemoveOutliers =>
         LET last == Stages(tbl)[Len(NumericCols(tbl))].left
         IN  tbl'.rows = SelectSeq(tbl.rows, LAMBDA r : r.idx \in last)]_vars

C8_Witness ==
    /\ prog = "Cleaning" /\ pc = "filtered"
    /\ Len(NumericCols(tbl)) >= 2
    /\ Len(tbl.rows) = 3
    /\ Len(groups) = 2
    /\ Len(groups[1].res.rows) + Len(groups[2].res.rows) = 4
    /\ \E i \in 1..3 : tbl.rows[i].c[cSqft] = Num(1)
    /\ \E i \in 1..3 : tbl.rows[i].c[cSqft] = Num(0)

(* C9 (as stated): no remaining row has a value outside the bound computed  *)
(* from the quartiles of the column in the table given to remove_outliers.  *)
C9_WithinGivenTableBounds ==
    [][RemoveOutliers =>
         LET fn == [c \in Range(NumericCols(tbl)) |-> Fences(Column(tbl, c))]
         IN  \A i \in 1..Len(tbl'.rows) :
               \A c \in Range(NumericCols(tbl)) : Inside(tbl'.rows[i].c[c], fn[c])]_vars

(* C9 (amended): every remaining row lies, in every numeric column, inside  *)
(* the bound computed from the rows left by the columns before it (for the  *)
(* first numeric column: the table given), and a row outside the first      *)
(* column's bound is removed.                                               *)
C9_WithinSequentialBounds ==
    [][RemoveOutliers =>
         LET nc == NumericCols(tbl)
             st == Stages(tbl)
         IN  /\ \A i \in 1..Len(tbl'.rows) :
                  \A k \in 1..Len(nc) : Inside(tbl'.rows[i].c[nc[k]], st[k].fn)
             /\ nc # <<>> =>
                  LET first == Fences(Column(tbl, nc[1]))
                  IN  \A r \in Range(tbl.rows) :
                        ~Inside(r.c[nc[1]], first) => r \notin Range(tbl'.rows)]_vars

C9_Witness ==
    /\ prog = "Cleaning" /\ pc = "filtered"
    /\ Len(tbl.rows) > 0
    /\ Len(groups) > 0
    /\ \E x \in 1..Len(groups) : Len(groups[x].res.rows) > Len(tbl.rows)

(* C10: in both pipelines a column is parsed as a date exactly when its     *)
(* name contains "date" or "signed", whatever the case of the letters.      *)
C10_DateLikeByName ==
    pc \in {"typed", "parsed"} =>
      \A c \in ColSet(tbl) :
        (tbl.dtype[c] = "datetime64") <=> (NameHas(sDate, c) \/ NameHas(sSigned, c))

(* C11: fill_year_qtr_month_from_date gives every missing year, quarter and *)
(* month cell of a row the value taken from the first date column, in       *)
(* column order, that holds a valid date in that row; a value already       *)
(* present is never changed, whether the row has a valid date or not.       *)
C11_FillFromFirstValidDate ==
    [][DeepFillTime =>
         /\ Len(tbl'.rows) = Len(tbl.rows)
         /\ \A i \in 1..Len(tbl.rows) :
              LET r == tbl.rows[i]
                  valid == SelectSeq(tbl.cols, LAMBDA d : r.c[d].k = "dt")
              IN  \A c \in TimeCols \cap ColSet(tbl) :
                    LET new == tbl'.rows[i].c[c]
                    IN  /\ r.c[c].k # "nan" => new = r.c[c]
                        /\ (r.c[c].k = "nan" /\ valid # <<>>) =>
                              LET dv == r.c[valid[1]]
                              IN  new = IF c = cYear THEN Num(dv.n)
                                        ELSE IF c = cMonth THEN Num(dv.d)
                                        ELSE Num((dv.d + 2) \div 3)]_vars

C11_Witness ==
    /\ prog = "Deep" /\ pc = "timefilled"
    /\ {cMonth, cDate, cSigned} \subseteq ColSet(tbl)
    /\ \E i, j, k \in 1..Len(tbl.rows) :
         LET src(x) == raw.cellrows[tbl.rows[x].idx + 1]
         IN  /\ src(i)[cMonth] = NaN /\ src(i)[cDate] = Str(sX) /\ src(i)[cSigned] = Str(sD2)
             /\ tbl.rows[i].c[cMonth] = Num(11)
             /\ src(j)[cMonth] = NaN /\ src(j)[cDate] = Str(sD1) /\ src(j)[cSigned] = Str(sD2)
             /\ tbl.rows[j].c[cMonth] = Num(4)
             /\ src(k)[cMonth] = Num(5) /\ src(k)[cDate] = Str(sD1)
             /\ tbl.rows[k].c[cMonth] = Num(5)

(* the stages in the order the claim gives them; Cleaning.py has no date    *)
(* normalization step of its own (dates are parsed by the column typing)    *)
ClaimedRank == [p \in {"typed", "cleaned", "filtered", "normalized"} |->
                  CASE p = "typed" -> 1 [] p = "cleaned" -> 3 [] p = "filtered" -> 4 [] OTHER -> 5]

(* C12 (as stated): the pipeline applies column typing, then group          *)
(* cleaning, then outlier filtering, then normalization: a table is typed   *)
(* before its groups are cleaned.                                           *)
C12_TypingBeforeGroupCleaning ==
    [][(prog = "Cleaning" /\ pc \in DOMAIN ClaimedRank /\ pc' \in DOMAIN ClaimedRank /\ pc' # pc)
          => ClaimedRank[pc] < ClaimedRank[pc']]_vars

MainOrder == <<"start", "loaded", "yq", "keys", "cleaned", "typed", "filtered", "normalized", "done">>

(* C12 (amended): a run of main() that reads its input goes through         *)
(* deduplication, year_quarter creation, key selection, group cleaning,     *)
(* column typing, outlier filtering, normalization and saving in that       *)
(* order, each once; column typing is applied to the concatenated result of *)
(* the group cleaning.                                                      *)
C12_GroupCleaningBeforeTyping ==
    [][(prog = "Cleaning" /\ pc' # pc) =>
          \/ pc' \in {"skipped", "error"}
          \/ pc \in {"skipped", "error", "done"} /\ pc' = "start"
          \/ \E i \in 1..(Len(MainOrder) - 1) :
                /\ pc = MainOrder[i] /\ pc' = MainOrder[i + 1]
                /\ pc' = "cleaned" => tbl'.rows = [j \in 1..Len(tbl'.rows) |->
                                          [idx |-> j - 1, c |-> tbl'.rows[j].c]]
                /\ pc' = "typed" =>
                      /\ tbl.rows = [j \in 1..Len(tbl.rows) |-> [idx |-> j - 1, c |-> tbl.rows[j].c]]
                      /\ tbl' = standardize_dtypes(tbl)
                /\ pc' = "filtered" => tbl' = remove_outliers(tbl)
                /\ pc' = "normalized" => tbl' = normalize(tbl)]_vars

C12_Witness ==
    /\ prog = "Cleaning" /\ pc = "typed"
    /\ \E x, y \in 1..Len(groups) :
         /\ groups[x].key = <<Str(sAd)>> /\ groups[y].key = <<Str(sA)>>
         /\ Len(groups[x].res.rows) > 0 /\ Len(groups[y].res.rows) > 0
    /\ \A i \in 1..Len(tbl.rows) : tbl.rows[i].c[cMarket] = Str(sA)

(* C13: in each group returned by dynamic_clean_group, every missing cell   *)
(* of a numeric column holds the median of that column over the rows kept,  *)
(* every missing cell of a non-numeric column holds the column's most       *)
(* frequent value among the kept rows, or the empty string when the column  *)
(* has no value at all, and no non-missing cell is changed.                 *)
C13_GapsImputed ==
    \A x \in 1..Len(groups) :
      LET g == groups[x].g
          res == groups[x].res
          kept == SelectSeq(g.rows, LAMBDA r : r.idx \in IdxSet(res.rows))
      IN  /\ Len(kept) = Len(res.rows)
          /\ \A c \in ColSet(res) :
               LET have == SelectSeq([i \in 1..Len(kept) |-> kept[i].c[c]], LAMBDA v : v.k # "nan")
                   top == {v \in Range(have) : \A w \in Range(have) : Count(have, w) <= Count(have, v)}
               IN  \A i \in 1..Len(kept) :
                     LET old == kept[i].c[c]
                         new == res.rows[i].c[c]
                     IN  IF old.k # "nan" THEN new = old
                         ELSE IF IsNumericDtype(g.dtype[c])
                         THEN have # <<>> /\ new = RNum(Median(Vals(have)))
                         ELSE IF have = <<>> THEN new = Str(<<>>)
                         ELSE new \in top

(* C14: the groups handed to dynamic_clean_group partition the rows of the  *)
(* deduplicated table: every row, a row with a missing key value included,  *)
(* is in exactly one group, and the groups of a leases, occupancy or price  *)
(* table are keyed by the candidate columns the table has.                  *)
C14_GroupsPartitionRows ==
    (prog = "Cleaning" /\ pc = "cleaned") =>
      /\ \A i \in 1..Len(raw.cellrows) :
           (\A j \in 1..(i - 1) : raw.cellrows[j] # raw.cellrows[i]) =>
             Cardinality({x \in 1..Len(groups) : (i - 1) \in IdxSet(groups[x].g.rows)}) = 1
      /\ kind # "unemployment" =>
           LET has == Range(raw.cols) \cup (IF {cYear, cQuarter} \subseteq Range(raw.cols)
                                             THEN {cYearQuarter} ELSE {})
           IN  /\ keys = SelectSeq(<<cState, cCity, cMarket, cRegion, cBuildingClass, cYearQuarter>>,
                                   LAMBDA k : k \in has)
               /\ \A x, y \in 1..Len(groups) :
                    \A r \in Range(groups[x].g.rows) : \A q \in Range(groups[y].g.rows) :
                      (x = y) <=> (\A n \in 1..Len(keys) : r.c[keys[n]] = q.c[keys[n]])

(* a text that is not a whole number / not a date written YYYY-MM *)
NotANumber(cell) == cell.k = "str" /\ ~(cell.s # <<>> /\ \A i \in 1..Len(cell.s) : IsDigit(cell.s[i]))
NotADate(cell) == cell.k = "str" /\ ParseDate(cell.s).k # "dt"

(* the date parsing half of C15: a value that cannot be read as a date is   *)
(* missing after parse_date_columns and after standardize_dtypes            *)
BadDatesBecomeMissing ==
    /\ (prog = "Deep" /\ pc = "parsed") =>
         \A c \in ColSet(tbl) : tbl.dtype[c] = "datetime64" =>
           \A i \in 1..Len(tbl.rows) :
             /\ tbl.rows[i].c[c].k \in {"dt", "nan"}
             /\ NotADate(raw.cellrows[tbl.rows[i].idx + 1][c]) => tbl.rows[i].c[c] = NaN
    /\ (prog = "Cleaning" /\ pc = "typed") =>
         \A c \in ColSet(tbl) : tbl.dtype[c] = "datetime64" =>
           \A i \in 1..Len(tbl.rows) : tbl.rows[i].c[c].k \in {"dt", "nan"}

(* C15 (as stated): where a cleaning step coerces a column to numbers, a    *)
(* value that cannot be read as a number becomes a missing value; where a   *)
(* step parses dates, a value that cannot be read as a date becomes         *)
(* missing; no error is raised.                                             *)
C15_BadValuesBecomeMissing ==
    /\ BadDatesBecomeMissing
    /\ (prog = "Deep" /\ pc = "downcast") =>
         \A c \in TimeCols \cap ColSet(tbl) :
           \A i \in 1..Len(tbl.rows) :
             NotANumber(raw.cellrows[tbl.rows[i].idx + 1][c]) => tbl.rows[i].c[c] = NaN

(* C15 (amended): the numeric coercions of the cleaning steps are made with *)
(* errors='ignore': a value that cannot be read as a number is left as it   *)
(* is, its column keeps its text dtype, and no error is raised; a value     *)
(* that cannot be read as a date becomes missing.                           *)
C15_BadNumbersLeftAsTheyAre ==
    /\ BadDatesBecomeMissing
    /\ (prog = "Deep" /\ pc \in {"downcast", "done"}) =>
         \A c \in TimeCols \cap ColSet(tbl) :
           \A i \in 1..Len(tbl.rows) :
             NotANumber(raw.cellrows[tbl.rows[i].idx + 1][c]) =>
               /\ tbl.rows[i].c[c] = raw.cellrows[tbl.rows[i].idx + 1][c]
               /\ tbl.dtype[c] = "object"

C15_Witness ==
    /\ prog = "Deep" /\ pc = "downcast"
    /\ {cYear, cDate} \subseteq ColSet(tbl)
    /\ \E i, j \in 1..Len(tbl.rows) :
         /\ raw.cellrows[tbl.rows[i].idx + 1][cYear] = Str(sX)
         /\ tbl.rows[i].c[cYear] = Str(sX)
         /\ raw.cellrows[tbl.rows[j].idx + 1][cDate] = Str(sX)
         /\ tbl.rows[j].c[cDate] = NaN
         /\ raw.cellrows[tbl.rows[j].idx + 1][cYear] = NaN
         /\ tbl.rows[j].c[cYear] = Num(0)

(* C16: the table minimal_clean_with_dates writes has exactly the input's   *)
(* columns, with the same names in the same order, and exactly one row for  *)
(* each distinct row of the input.                                          *)
C16_StructurePreserved ==
    (prog = "Deep" /\ pc = "done") =>
      LET src == [i \in 1..Len(out[1].rows) |-> raw.cellrows[out[1].rows[i].idx + 1]]
      IN  /\ out[1].cols = raw.cols
          /\ \A i \in 1..Len(out[1].rows) : DOMAIN out[1].rows[i].c = Range(raw.cols)
          /\ Range(src) = Range(raw.cellrows)
          /\ \A i, j \in 1..Len(src) : i # j => src[i] # src[j]

C16_Witness ==
    /\ prog = "Deep" /\ pc = "done"
    /\ Len(out[1].rows) = 2
    /\ Len(raw.cellrows) = 3
    /\ raw.cellrows[1] = raw.cellrows[3]
    /\ \E i \in 1..2 : out[1].rows[i].c # raw.cellrows[out[1].rows[i].idx + 1]

(* C17: in the table minimal_clean_with_dates writes, no numeric column     *)
(* other than year, quarter and month has a missing value, a cell missing   *)
(* in the input holding the column's median over the deduplicated table,    *)
(* and no text column has a missing value, a cell missing in the input      *)
(* holding the text 'missing'.                                              *)
C17_NoMissingAfterMinimalClean ==
    (prog = "Deep" /\ pc = "done") =>
      \A c \in ColSet(out[1]) :
        LET src(i) == raw.cellrows[out[1].rows[i].idx + 1][c]
            have == SelectSeq([i \in 1..Len(out[1].rows) |-> src(i)], LAMBDA v : v.k = "num")
        IN  /\ (out[1].dtype[c] \in {"int64", "float64"} /\ c \notin {cYear, cQuarter, cMonth}) =>
                 \A i \in 1..Len(out[1].rows) :
                   /\ out[1].rows[i].c[c].k = "num"
                   /\ src(i).k = "nan" => out[1].rows[i].c[c] = RNum(Median(Vals(have)))
            /\ out[1].dtype[c] = "object" =>
                 \A i \in 1..Len(out[1].rows) :
                   /\ out[1].rows[i].c[c].k # "nan"
                   /\ src(i).k = "nan" => out[1].rows[i].c[c] = Str(sMissing)

(* C18: main() started with all four cleaned files on disk returns at once: *)
(* it reads no input and creates, changes or deletes no file; started with  *)
(* at least one of them absent it loads its input and recomputes, and its   *)
(* save step writes all four files together, so that a run started right    *)
(* after a completed run changes nothing.                                   *)
C18_SkipWhenAllOutputsExist ==
    [][prog = "Cleaning" =>
         /\ (pc = "start" /\ OutFiles \subseteq files) =>
               (pc' = "skipped" /\ tbl' = NoTable /\ files' = files /\ out' = out)
         /\ (pc = "start" /\ ~(OutFiles \subseteq files)) =>
               (pc' = "loaded" /\ tbl' # NoTable /\ files' = files /\ out' = out)
         /\ (files' # files \/ out' # out) =>
               (pc = "normalized" /\ pc' = "done" /\ out' = <<tbl>>)
         /\ pc' = "done" => files' = OutFiles
         /\ (pc = "done" /\ pc' = "start") => (OutFiles \subseteq files' /\ out' = out)]_vars

C18_Witness ==
    /\ prog = "Cleaning" /\ pc = "skipped"
    /\ out # <<>>
    /\ Len(out[1].rows) > 0
    /\ tbl = NoTable

(* the text year, 'Q', quarter of the input row at position i *)
YearQ(i) ==
    LET dt(c) == IF \E j \in 1..Len(raw.cellrows) : raw.cellrows[j][c].k = "str" THEN "object"
                 ELSE IF \E j \in 1..Len(raw.cellrows) : raw.cellrows[j][c].k = "nan" THEN "float64"
                 ELSE "int64"
    IN  Str(ToStr(raw.cellrows[i][cYear], dt(cYear)) \o <<"Q">>
            \o ToStr(raw.cellrows[i][cQuarter], dt(cQuarter)))

(* C19: create_year_quarter adds the column year_quarter, whose value is    *)
(* the row's year, then 'Q', then the row's quarter, exactly when the table *)
(* has both columns, and leaves the table unchanged otherwise; in the table *)
(* main() writes, the year_quarter of every row still is that combination   *)
(* of an input row's year and quarter.                                      *)
C19_YearQuarterKept ==
    (prog = "Cleaning" /\ kind # "unemployment") =>
      /\ pc = "yq" =>
           IF {cYear, cQuarter} \subseteq Range(raw.cols)
           THEN /\ tbl.cols = Append(raw.cols, cYearQuarter)
                /\ \A i \in 1..Len(tbl.rows) :
                     /\ tbl.rows[i].c[cYearQuarter] = YearQ(tbl.rows[i].idx + 1)
                     /\ \A c \in Range(raw.cols) :
                          tbl.rows[i].c[c] = raw.cellrows[tbl.rows[i].idx + 1][c]
           ELSE /\ tbl.cols = raw.cols
                /\ \A i \in 1..Len(tbl.rows) : tbl.rows[i].c = raw.cellrows[tbl.rows[i].idx + 1]
      /\ (pc = "done" /\ {cYear, cQuarter} \subseteq Range(raw.cols)) =>
           /\ cYearQuarter \in ColSet(out[1])
           /\ \A i \in 1..Len(out[1].rows) :
                \E j \in 1..Len(raw.cellrows) : out[1].rows[i].c[cYearQuarter] = YearQ(j)

(* C20: the merged table keeps every row of leases: after the left joins   *)
(* with occupancy and price on (market, year, quarter) and with            *)
(* unemployment on (state, year), every leases row appears at least once,  *)
(* and exactly once, in the order of leases, when no joined table has two  *)
(* rows with the same key.                                                 *)
C20_LeftJoinsKeepLeases ==
    (prog = "Analysis" /\ pc = "unemployment") =>
      LET lrows == raw.leases.rows
          part == [i \in 1..Len(tbl.rows) |-> [c \in Range(raw.leases.cols) |-> tbl.rows[i][c]]]
          times(seq, x) == Cardinality({i \in 1..Len(seq) : seq[i] = x})
          onekey(rows, on) ==
              \A i, j \in 1..Len(rows) :
                i # j => \E k \in 1..Len(on) : rows[i][on[k]] # rows[j][on[k]]
          unique == /\ onekey(raw.occupancy.rows, <<cMarket, cYear, cQuarter>>)
                    /\ onekey(raw.price_avail.rows, <<cMarket, cYear, cQuarter>>)
                    /\ onekey(raw.unemp.rows, <<cState, cYear>>)
      IN  /\ \A x \in Range(lrows) : times(part, x) >= times(lrows, x)
          /\ Range(part) = Range(lrows)
          /\ unique => part = lrows

C20_Witness ==
    /\ prog = "Analysis" /\ pc = "unemployment"
    /\ Len(raw.leases.rows) = 2
    /\ Len(tbl.rows) = 5
    /\ \E i \in 1..5 : tbl.rows[i][cOccupancy] = NaN /\ tbl.rows[i][cUnempRate] = NaN
    /\ \E i \in 1..5 : tbl.rows[i][cOccupancy] = Num(1) /\ tbl.rows[i][cOverallRent] = Num(0)

(* C21: the rows and the columns dynamic_clean_group drops are both decided *)
(* on the group as given: a row by its completeness over all the columns   *)
(* given, a column by its missingness over all the rows given, whatever    *)
(* the other test drops.                                                   *)
C21_DropsDecidedOnGivenGroup ==
    \A x \in 1..Len(groups) :
      LET g == groups[x].g
          res == groups[x].res
          nr == Len(g.rows)
          nc == Len(g.cols)
          comp == [i \in 1..nr |-> R(Cardinality({c \in ColSet(g) : g.rows[i].c[c].k # "nan"}), nc)]
          miss == [j \in 1..nc |-> R(Cardinality({i \in 1..nr : g.rows[i].c[g.cols[j]].k = "nan"}), nr)]
          rt == IF groups[x].branch = "fixed" THEN R(2, 5)
                ELSE RMax(R(1, 5), RSub(Median(comp), R(1, 10)))
          ct == IF groups[x].branch = "fixed" THEN R(3, 5)
                ELSE RMin(R(9, 10), RAdd(Median(miss), R(1, 10)))
      IN  /\ IdxSet(res.rows) = {g.rows[i].idx : i \in {k \in 1..nr : RLe(rt, comp[k])}}
          /\ res.cols = SelectSeq(g.cols, LAMBDA c :
                           \E j \in 1..nc : g.cols[j] = c /\ RLt(miss[j], ct))

(* a group with a dropped row that is complete over the columns kept and a *)
(* dropped column that has no missing cell in the rows kept                *)
C21_Witness ==
    \E x \in 1..Len(groups) :
      LET g == groups[x].g
          res == groups[x].res
          left == {i \in 1..Len(g.rows) : g.rows[i].idx \in IdxSet(res.rows)}
      IN  /\ left # {}
          /\ \E i \in (1..Len(g.rows)) \ left : \A c \in ColSet(res) : g.rows[i].c[c].k # "nan"
          /\ \E c \in ColSet(g) \ ColSet(res) : \A i \in left : g.rows[i].c[c].k # "nan"

(* C22: for a leases, occupancy or price table, the keys are the defaults   *)
(* market, year_quarter by fallback exactly when the table has none of the *)
(* candidate columns; grouping then fails with a lookup error, the run     *)
(* stops there and no output file is written.                              *)
C22_DefaultKeysFail ==
    (prog = "Cleaning" /\ kind # "unemployment"
       /\ pc \in {"keys", "cleaned", "typed", "filtered", "normalized", "done", "error"}) =>
      LET has == Range(raw.cols) \cup (IF {cYear, cQuarter} \subseteq Range(raw.cols)
                                        THEN {cYearQuarter} ELSE {})
          found == {cState, cCity, cMarket, cRegion, cBuildingClass, cYearQuarter} \cap has
      IN  IF found = {}
          THEN /\ keys = <<cMarket, cYearQuarter>>
               /\ pc \in {"keys", "error"}
               /\ out = <<>>
               /\ files # OutFiles
          ELSE /\ Range(keys) = found
               /\ pc # "error"

C22_Witness ==
    /\ prog = "Cleaning" /\ kind = "leases" /\ pc = "error"
    /\ keys = <<cMarket, cYearQuarter>>
    /\ cMarket \notin ColSet(tbl)
    /\ Len(tbl.rows) > 1
    /\ out = <<>>

IsCompleteRow(g, i) == \A c \in ColSet(g) : g.rows[i].c[c].k # "nan"
MedianCompleteness(g) ==
    Median([i \in 1..Len(g.rows) |->
              R(Cardinality({c \in ColSet(g) : g.rows[i].c[c].k # "nan"}), Len(g.cols))])

(* C23 (as stated): dynamic_clean_group never drops a row without a missing *)
(* cell, in any group, and keeps at least half of the rows of a group       *)
(* without a 2018 row.                                                      *)
C23_KeepsCompleteRowsAndHalf ==
    \A x \in 1..Len(groups) :
      LET g == groups[x].g
          res == groups[x].res
      IN  /\ \A i \in 1..Len(g.rows) : IsCompleteRow(g, i) => g.rows[i].idx \in IdxSet(res.rows)
          /\ ~Has2018(g) => 2 * Len(res.rows) >= Len(g.rows)

(* C23 (amended): dynamic_clean_group never drops a row without a missing   *)
(* cell, in any group, and keeps at least half of the rows of a group       *)
(* without a 2018 row whose median row completeness is at least 0.2.        *)
C23_KeepsHalfAboveFloor ==
    \A x \in 1..Len(groups) :
      LET g == groups[x].g
          res == groups[x].res
      IN  /\ \A i \in 1..Len(g.rows) : IsCompleteRow(g, i) => g.rows[i].idx \in IdxSet(res.rows)
          /\ (~Has2018(g) /\ RLe(R(1, 5), MedianCompleteness(g))) =>
                2 * Len(res.rows) >= Len(g.rows)

C23_Witness ==
    \E x \in 1..Len(groups) :
      LET g == groups[x].g
          res == groups[x].res
      IN  /\ ~Has2018(g)
          /\ RLe(R(1, 5), MedianCompleteness(g))
          /\ Len(res.rows) < Len(g.rows)
          /\ \E i \in 1..Len(g.rows) : IsCompleteRow(g, i)
          /\ \E i \in 1..Len(g.rows) : ~IsCompleteRow(g, i) /\ g.rows[i].idx \in IdxSet(res.rows)

(* C24: dynamic_clean_group drops every column that is missing in all the   *)
(* rows of the group and keeps every column that has no missing cell in the *)
(* group; the columns the group is keyed by are among the columns kept.     *)
C24_EmptyColumnsDroppedFullKept ==
    \A x \in 1..Len(groups) :
      LET g == groups[x].g
          res == groups[x].res
      IN  /\ \A c \in ColSet(g) :
               /\ (\A i \in 1..Len(g.rows) : g.rows[i].c[c].k = "nan") => c \notin ColSet(res)
               /\ (\A i \in 1..Len(g.rows) : g.rows[i].c[c].k # "nan") => c \in ColSet(res)
          /\ Range(keys) \subseteq ColSet(res)
          /\ ColSet(res) \subseteq ColSet(g)

C24_Witness ==
    \E x \in 1..Len(groups) :
      LET g == groups[x].g
          res == groups[x].res
          miss(c) == {i \in 1..Len(g.rows) : g.rows[i].c[c].k = "nan"}
      IN  /\ Len(g.rows) > 1
          /\ \E c \in ColSet(g) \ ColSet(res) : miss(c) = 1..Len(g.rows)
          /\ \E c \in ColSet(res) \ Range(keys) : miss(c) = {}
          /\ \E c \in ColSet(res) : miss(c) # {}

(* the index labels the rows of the x-th group's result get in the          *)
(* recombined table                                                         *)
RECURSIVE RowsBefore(_)
RowsBefore(x) == IF x = 1 THEN 0 ELSE RowsBefore(x - 1) + Len(groups[x - 1].res.rows)
LabelsOf(x) == {RowsBefore(x) + i - 1 : i \in 1..Len(groups[x].res.rows)}

(* numeric column c of the table is dropped in group x and kept in group y *)
DroppedInOne(x, y, c) ==
    /\ c \in ColSet(groups[x].g)
    /\ groups[x].g.dtype[c] \in {"int64", "float64"}
    /\ c \notin ColSet(groups[x].res)
    /\ c \in ColSet(groups[y].res)

(* C25 (as stated): when a numeric column is dropped in one group and kept  *)
(* in another group of the table, the first group's rows have that column   *)
(* missing in the recombined table and none of them is left after           *)
(* remove_outliers, so none is in the written table.                        *)
C25_RowsOfDroppingGroupRemoved ==
    prog = "Cleaning" =>
      \A x, y \in 1..Len(groups) :
        \A c \in ColSet(groups[x].g) :
          DroppedInOne(x, y, c) =>
            /\ pc = "cleaned" =>
                 \A i \in 1..Len(tbl.rows) : tbl.rows[i].idx \in LabelsOf(x) => tbl.rows[i].c[c] = NaN
            /\ pc \in {"filtered", "normalized", "done"} =>
                 \A i \in 1..Len(tbl.rows) : tbl.rows[i].idx \notin LabelsOf(x)

(* C25 (amended): the same for a numeric column whose name does not contain *)
(* 'date'.                                                                  *)
C25_RowsRemovedUnlessDateNamed ==
    prog = "Cleaning" =>
      \A x, y \in 1..Len(groups) :
        \A c \in ColSet(groups[x].g) :
          (DroppedInOne(x, y, c) /\ ~NameHas(sDate, c)) =>
            /\ pc = "cleaned" =>
                 \A i \in 1..Len(tbl.rows) : tbl.rows[i].idx \in LabelsOf(x) => tbl.rows[i].c[c] = NaN
            /\ pc \in {"filtered", "normalized", "done"} =>
                 \A i \in 1..Len(tbl.rows) : tbl.rows[i].idx \notin LabelsOf(x)

C25_Witness ==
    /\ prog = "Cleaning" /\ pc = "done"
    /\ Len(out[1].rows) > 0
    /\ \E x, y \in 1..Len(groups) :
         /\ Len(groups[x].res.rows) > 1
         /\ \E c \in ColSet(groups[x].g) : DroppedInOne(x, y, c) /\ ~NameHas(sDate, c)
         /\ \A i \in 1..Len(out[1].rows) : out[1].rows[i].idx \in LabelsOf(y)

(* C26: remove_outliers only removes rows: the rows it returns are rows of  *)
(* its input, in the same order, with their index labels and every cell     *)
(* unchanged, and the columns and their dtypes are those of the input; no   *)
(* row it returns has a missing value in a numeric column, so none is       *)
(* returned when a numeric column is missing in every row.                  *)
C26_OnlyRemovesRows ==
    [][RemoveOutliers =>
         /\ tbl'.cols = tbl.cols
         /\ tbl'.dtype = tbl.dtype
         /\ \E keep \in SUBSET (1..Len(tbl.rows)) :
              tbl'.rows = SelectSeq(tbl.rows, LAMBDA r :
                             \E i \in keep : tbl.rows[i] = r)
         /\ \A i, j \in 1..Len(tbl'.rows) : i < j => tbl'.rows[i].idx < tbl'.rows[j].idx
         /\ \A i \in 1..Len(tbl.rows) :
              (\E c \in ColSet(tbl) :
                  tbl.dtype[c] \in {"int64", "float64"} /\ tbl.rows[i].c[c].k = "nan")
                => \A j \in 1..Len(tbl'.rows) : tbl'.rows[j].idx # tbl.rows[i].idx]_vars

C26_Witness ==
    /\ prog = "Cleaning" /\ pc = "filtered"
    /\ Len(tbl.rows) > 1
    /\ tbl.rows[1].idx > 0
    /\ \E x \in 1..Len(groups) :
         /\ Len(groups[x].res.rows) > 0
         /\ \E c \in ColSet(tbl) \ ColSet(groups[x].res) : tbl.dtype[c] \in {"int64", "float64"}
         /\ \A i \in 1..Len(tbl.rows) : tbl.rows[i].idx \notin LabelsOf(x)

====
